---- MODULE Spec2Model ----
(***************************************************************************)
(* Callback slots of EventManager.hpp: EventCallbackVoid, EventCallbackArg *)
(* EventCallbackRefArg and EventCallbackPtrArg.  One slot is modelled; its *)
(* variant is fixed at construction.  A slot holds m_object, the pointer   *)
(* to the EventManager base sub-object of the bound object, and            *)
(* m_eventReceive, the bits of the bound pointer to member function.       *)
(***************************************************************************)
EXTENDS Integers, Sequences, FiniteSets, TLC

\* Bounds of the model.
MaxCount == 3
MaxVal == 10

Variants == {"Void", "Arg", "RefArg", "PtrArg"}

(***************************************************************************)
(* Objects a caller binds.  Their classes derive from EventManager, as     *)
(* static_cast<EventManager*>(object) requires.  "a" and "b" derive from   *)
(* EventManager alone, so the base sub-object sits at offset 0; "m" has    *)
(* another base first and its EventManager sub-object sits at offset 1.    *)
(***************************************************************************)
Objects == {"a", "b", "m"}

EventManagerOffset(o) == IF o = "m" THEN 1 ELSE 0

\* An object pointer is the object it points into and a displacement.
NullObject == [id |-> "null", off |-> 0]

AddressOf(o) == [id |-> o, off |-> 0]

ObjectArgs == {NullObject} \cup {AddressOf(o) : o \in Objects}

\* A pointer to member function is the function and a this-adjustment.
NullMethod == [fn |-> "null", adj |-> 0]

MemberPointer(f) == [fn |-> f, adj |-> 0]

MethodsOf(v) ==
  CASE v = "Void"   -> {"inc", "rebind"}
    [] v = "Arg"    -> {"store", "bump"}
    [] v = "RefArg" -> {"dbl", "storeRef"}
    [] v = "PtrArg" -> {"storePtr", "incPtr"}

MethodArgs(v) == {NullMethod} \cup {MemberPointer(f) : f \in MethodsOf(v)}

\* Pointer arguments of EventCallbackPtrArg::invoke: null or the caller's variable.
PointerArgs == {"nullptr", "&callerVar"}

VARIABLES
  variant,        \* which of the four classes the slot is an instance of
  m_object,       \* EventManager *m_object
  m_eventReceive, \* void (EventManager::*m_eventReceive)(...)
  counter,        \* per object: the field the handler inc increments
  recorded,       \* per object: the int a handler stored, -1 before any
  recordedPtr,    \* per object: the pointer a handler stored
  callerVar,      \* the caller's variable handed to invoke
  stray,          \* a handler wrote through a misplaced this
  op,             \* the operation that ran last
  argPassed,      \* the argument the caller gave to the last invoke
  called,         \* the handler calls the last operation made
  lastBind,       \* the arguments of the most recent set
  objSrc,         \* the arguments of the set that wrote m_object
  mtdSrc,         \* the arguments of the set that wrote m_eventReceive
  pcSet,          \* position of a set in progress on another thread
  setArgs,        \* the arguments of the set in progress
  pcInvoke,       \* position of an invoke in progress on another thread
  loaded,         \* the fields the invoke in progress has loaded
  raced           \* a set and an invoke have overlapped in time

slotVars == <<m_object, m_eventReceive, lastBind, objSrc, mtdSrc>>
objectVars == <<counter, recorded, recordedPtr, stray>>
threadVars == <<pcSet, setArgs, pcInvoke, loaded, raced>>
vars == <<variant, m_object, m_eventReceive, counter, recorded, recordedPtr,
          callerVar, stray, op, argPassed, called, lastBind, objSrc, mtdSrc,
          pcSet, setArgs, pcInvoke, loaded, raced>>

NoBind == [obj |-> NullObject, method |-> NullMethod]

NoLoad == [obj |-> NullObject, method |-> NullMethod, objSrc |-> NoBind, mtdSrc |-> NoBind]

NoArg == [value |-> -1, ptr |-> "none"]

\* Variant of StaticCast: a cast that fails, giving null, for the class
\* whose EventManager base is not its first base.
StaticCastFailing(p) ==
  IF p = NullObject \/ EventManagerOffset(p.id) # 0 THEN NullObject
  ELSE [id |-> p.id, off |-> p.off]

\* static_cast<EventManager*>(object): null stays null, otherwise the
\* pointer moves to the EventManager base sub-object.
StaticCast(p) ==
  IF p = NullObject THEN NullObject
  ELSE [id |-> p.id, off |-> p.off + EventManagerOffset(p.id)]

\* reinterpret_cast<void (EventManager::*)(...)>(method): the bits are kept,
\* so the this-adjustment is not corrected for the base's offset.
ReinterpretCast(mp) == mp

\* Values the caller gives its variable.
InputValues == {1, 5}

\* Default member initialisers.
Init ==
  /\ variant \in Variants
  /\ m_object = NullObject
  /\ m_eventReceive = NullMethod
  /\ counter = [o \in Objects |-> 0]
  /\ recorded = [o \in Objects |-> -1]
  /\ recordedPtr = [o \in Objects |-> "none"]
  /\ callerVar \in InputValues
  /\ stray = FALSE
  /\ op = "construct"
  /\ argPassed = NoArg
  /\ called = <<>>
  /\ lastBind = NoBind
  /\ objSrc = NoBind
  /\ mtdSrc = NoBind
  /\ pcSet = "idle"
  /\ setArgs = NoBind
  /\ pcInvoke = "idle"
  /\ loaded = NoLoad
  /\ raced = FALSE

\* Variant of WriteObject: the target of the first bind is kept.
WriteObjectOnce(object, method) ==
  /\ m_object' = IF m_object = NullObject THEN StaticCast(object) ELSE m_object
  /\ objSrc' = IF m_object = NullObject THEN [obj |-> object, method |-> method]
               ELSE objSrc

\* The two assignments of set.
WriteObject(object, method) ==
  /\ m_object' = StaticCast(object)
  /\ objSrc' = [obj |-> object, method |-> method]

\* Variant of WriteMethod: the handler of the first bind is kept.
WriteMethodFirstWins(object, method) ==
  /\ m_eventReceive' = IF m_eventReceive = NullMethod THEN ReinterpretCast(method)
                       ELSE m_eventReceive
  /\ mtdSrc' = IF m_eventReceive = NullMethod THEN [obj |-> object, method |-> method]
               ELSE mtdSrc

WriteMethod(object, method) ==
  /\ m_eventReceive' = ReinterpretCast(method)
  /\ mtdSrc' = [obj |-> object, method |-> method]

\* Variant of SetFields: a bind with a null object is ignored.
SetFieldsChecked(object, method) ==
  /\ lastBind' = [obj |-> object, method |-> method]
  /\ IF object = NullObject
     THEN UNCHANGED <<m_object, m_eventReceive, objSrc, mtdSrc>>
     ELSE WriteObject(object, method) /\ WriteMethod(object, method)

SetFields(object, method) ==
  /\ WriteObject(object, method)
  /\ WriteMethod(object, method)
  /\ lastBind' = [obj |-> object, method |-> method]

\* set(object, method) called by the slot's owner.
Set(object, method) ==
  /\ SetFields(object, method)
  /\ op' = "set"
  /\ called' = <<>>
  /\ UNCHANGED <<variant, objectVars, callerVar, argPassed, threadVars>>

SetVoid ==
  /\ variant = "Void"
  /\ \E object \in ObjectArgs, method \in MethodArgs("Void") : Set(object, method)

SetArg ==
  /\ variant = "Arg"
  /\ \E object \in ObjectArgs, method \in MethodArgs("Arg") : Set(object, method)

SetRefArg ==
  /\ variant = "RefArg"
  /\ \E object \in ObjectArgs, method \in MethodArgs("RefArg") : Set(object, method)

SetPtrArg ==
  /\ variant = "PtrArg"
  /\ \E object \in ObjectArgs, method \in MethodArgs("PtrArg") : Set(object, method)

\* The caller changes its own variable between calls.
CallerAssign ==
  /\ \E x \in InputValues \ {callerVar} : callerVar' = x
  /\ op' = "assign"
  /\ called' = <<>>
  /\ UNCHANGED <<variant, slotVars, objectVars, argPassed, threadVars>>

(***************************************************************************)
(* The bound methods.  They belong to the classes of the bound objects:    *)
(* inc increments the object's counter, rebind binds the slot again from   *)
(* inside the call, store keeps its argument, bump adds one to its own     *)
(* parameter and keeps the sum, dbl doubles its parameter in place,        *)
(* storeRef keeps what its reference holds, storePtr keeps the pointer it  *)
(* is given without using it, incPtr adds one through a non-null pointer.  *)
(***************************************************************************)
ParamAfter(fn, value) ==
  CASE fn = "bump" -> value + 1
    [] fn = "dbl"  -> 2 * value
    [] OTHER       -> value

\* A write to a field through a this that does not point at the object's
\* start lands elsewhere: outside the fields, or over the counter.
MisplacedWrite(self) ==
  /\ stray' = TRUE
  /\ \E g \in 0..MaxCount : counter' = [counter EXCEPT ![self.id] = g]
  /\ UNCHANGED <<recorded, recordedPtr>>

WriteCounter(self) ==
  IF self.off = 0
  THEN /\ counter' = [counter EXCEPT ![self.id] = @ + 1]
       /\ UNCHANGED <<recorded, recordedPtr, stray>>
  ELSE MisplacedWrite(self)

WriteRecorded(self, value) ==
  IF self.off = 0
  THEN /\ recorded' = [recorded EXCEPT ![self.id] = value]
       /\ UNCHANGED <<counter, recordedPtr, stray>>
  ELSE MisplacedWrite(self)

WriteRecordedPtr(self, ptr) ==
  IF self.off = 0
  THEN /\ recordedPtr' = [recordedPtr EXCEPT ![self.id] = ptr]
       /\ UNCHANGED <<counter, recorded, stray>>
  ELSE MisplacedWrite(self)

\* What the body of the called method does to the objects and to the slot.
\* A call through a null object or a null member pointer has no body to run.
RunHandler(fn, self, value, ptr) ==
  CASE fn = "null" \/ self.id = "null" ->
         /\ stray' = TRUE
         /\ UNCHANGED <<counter, recorded, recordedPtr, slotVars>>
    [] fn = "inc" /\ self.id # "null" ->
         WriteCounter(self) /\ UNCHANGED slotVars
    [] fn = "rebind" /\ self.id # "null" ->
         SetFields(AddressOf("b"), MemberPointer("inc")) /\ UNCHANGED objectVars
    [] fn \in {"store", "bump", "storeRef"} /\ self.id # "null" ->
         WriteRecorded(self, ParamAfter(fn, value)) /\ UNCHANGED slotVars
    [] fn = "storePtr" /\ self.id # "null" ->
         WriteRecordedPtr(self, ptr) /\ UNCHANGED slotVars
    [] fn \in {"dbl", "incPtr"} /\ self.id # "null" ->
         UNCHANGED <<objectVars, slotVars>>

\* What the caller's variable holds once the method has returned.
PointeeAfter(fn, ptr, value) ==
  IF fn = "incPtr" /\ ptr = "&callerVar" THEN value + 1 ELSE value

\* Guards that keep the counters of the model within its bounds.
WithinBounds(fn, self, after) ==
  /\ (fn = "inc" /\ self.id # "null" /\ self.off = 0) => counter[self.id] < MaxCount
  /\ after <= MaxVal

\* Variant of BothSet: only the target is tested.
BothSetObjectOnly(object, method) == object # NullObject

\* if (m_object && m_eventReceive)
BothSet(object, method) == object # NullObject /\ method # NullMethod

\* Variant of This: the call lands one past the object pointer.
ThisSkewed(object, method) == [id |-> object.id, off |-> object.off + method.adj + 1]

\* m_object->*m_eventReceive: this is the object pointer moved by the
\* member pointer's adjustment.
This(object, method) == [id |-> object.id, off |-> object.off + method.adj]

\* Variant of PassByValue: the parameter aliases the caller's variable.
PassByValueAliased(before, after) == after

\* P value: the method works on a copy, the caller's variable keeps its value.
PassByValue(before, after) == before

\* Variant of PassByReference: the method is given a copy.
PassByReferenceCopied(before, after) == before

\* P &value: the method works on the caller's variable.
PassByReference(before, after) == after

\* Variant of PassPointer: a null argument is replaced.
PassPointerNullReplaced(ptr) == IF ptr = "nullptr" THEN "&callerVar" ELSE ptr

\* P *value: the pointer is handed on as it is.
PassPointer(ptr) == ptr

\* The field values an invoke works on, as the slot holds them now.
Fields ==
  [obj |-> m_object, method |-> m_eventReceive, objSrc |-> objSrc, mtdSrc |-> mtdSrc]

\* The call (m_object->*m_eventReceive)(...), on the field values in ld.
Dispatch(ld, value, ptr, after) ==
  LET fn == ld.method.fn
      self == This(ld.obj, ld.method)
  IN /\ WithinBounds(fn, self, after)
     /\ called' = <<[fn |-> fn, self |-> self, value |-> value, ptr |-> ptr,
                     objSrc |-> ld.objSrc, mtdSrc |-> ld.mtdSrc]>>
     /\ RunHandler(fn, self, value, ptr)
     /\ callerVar' = after

\* Variant of Invoke: an invoke that finds the slot not bound clears it.
InvokeClearing(v, value, ptr, after) ==
  /\ variant = v
  /\ op' = "invoke"
  /\ IF BothSet(m_object, m_eventReceive)
     THEN Dispatch(Fields, value, ptr, after)
     ELSE /\ called' = <<>>
          /\ m_object' = NullObject
          /\ m_eventReceive' = NullMethod
          /\ UNCHANGED <<lastBind, objSrc, mtdSrc, objectVars, callerVar>>
  /\ UNCHANGED <<variant, threadVars>>

\* invoke(...), run to completion.
Invoke(v, value, ptr, after) ==
  /\ variant = v
  /\ op' = "invoke"
  /\ IF BothSet(m_object, m_eventReceive)
     THEN Dispatch(Fields, value, ptr, after)
     ELSE /\ called' = <<>>
          /\ UNCHANGED <<slotVars, objectVars, callerVar>>
  /\ UNCHANGED <<variant, threadVars>>

InvokeVoid ==
  /\ argPassed' = NoArg
  /\ Invoke("Void", -1, "none", callerVar)

InvokeArg ==
  /\ argPassed' = [value |-> callerVar, ptr |-> "none"]
  /\ Invoke("Arg", callerVar, "none",
            PassByValue(callerVar, ParamAfter(m_eventReceive.fn, callerVar)))

InvokeRefArg ==
  /\ argPassed' = [value |-> callerVar, ptr |-> "none"]
  /\ Invoke("RefArg", callerVar, "none",
            PassByReference(callerVar, ParamAfter(m_eventReceive.fn, callerVar)))

InvokePtrArg ==
  \E ptr \in PointerArgs :
    /\ argPassed' = [value |-> -1, ptr |-> ptr]
    /\ Invoke("PtrArg", -1, PassPointer(ptr),
              PointeeAfter(m_eventReceive.fn, PassPointer(ptr), callerVar))

Next ==
  \/ SetVoid
  \/ SetArg
  \/ SetRefArg
  \/ SetPtrArg
  \/ InvokeVoid
  \/ InvokeArg
  \/ InvokeRefArg
  \/ InvokePtrArg
  \/ CallerAssign

Spec == Init /\ [][Next]_vars

(***************************************************************************)
(* A set and an invoke of the same EventCallbackVoid running on two        *)
(* threads with no synchronisation.  set is two stores, invoke is a load   *)
(* and test of each field followed by the call; the call uses the values   *)
(* the tests loaded or loads the fields again, as the compiler chose.      *)
(***************************************************************************)
SetStoreObject ==
  /\ pcSet = "idle"
  /\ \E object \in {AddressOf("a"), AddressOf("b")},
        method \in MethodArgs("Void") \ {NullMethod} :
       /\ WriteObject(object, method)
       /\ setArgs' = [obj |-> object, method |-> method]
       /\ lastBind' = [obj |-> object, method |-> method]
  /\ pcSet' = "storedObject"
  /\ raced' = (raced \/ pcInvoke # "idle")
  /\ UNCHANGED <<variant, m_eventReceive, mtdSrc, objectVars, callerVar, op, argPassed,
                 called, pcInvoke, loaded>>

SetStoreMethod ==
  /\ pcSet = "storedObject"
  /\ WriteMethod(setArgs.obj, setArgs.method)
  /\ pcSet' = "idle"
  /\ UNCHANGED <<variant, m_object, objSrc, lastBind, setArgs, objectVars, callerVar,
                 op, argPassed, called, pcInvoke, loaded, raced>>

InvokeTestObject ==
  /\ pcInvoke = "idle"
  /\ loaded' = [NoLoad EXCEPT !.obj = m_object, !.objSrc = objSrc]
  /\ raced' = (raced \/ pcSet # "idle")
  /\ pcInvoke' = IF m_object # NullObject THEN "objectSet" ELSE "idle"
  /\ op' = "invoke"
  /\ argPassed' = NoArg
  /\ called' = <<>>
  /\ UNCHANGED <<variant, slotVars, objectVars, callerVar, pcSet, setArgs>>

InvokeTestMethod ==
  /\ pcInvoke = "objectSet"
  /\ loaded' = [loaded EXCEPT !.method = m_eventReceive, !.mtdSrc = mtdSrc]
  /\ pcInvoke' = IF m_eventReceive # NullMethod THEN "bothSet" ELSE "idle"
  /\ UNCHANGED <<variant, op, argPassed, called, slotVars, objectVars, callerVar, pcSet, setArgs,
                 raced>>

InvokeCall ==
  /\ pcInvoke = "bothSet"
  /\ \/ Dispatch(loaded, -1, "none", callerVar)
     \/ Dispatch(Fields, -1, "none", callerVar)
  /\ pcInvoke' = "idle"
  /\ loaded' = NoLoad
  /\ UNCHANGED <<variant, op, argPassed, pcSet, setArgs, raced>>

InitRace == Init /\ variant = "Void" /\ callerVar = 5

NextRace ==
  \/ SetStoreObject
  \/ SetStoreMethod
  \/ InvokeTestObject
  \/ InvokeTestMethod
  \/ InvokeCall

SpecRace == InitRace /\ [][NextRace]_vars

(***************************************************************************)
(* Properties.                                                             *)
(***************************************************************************)
Bound == m_object # NullObject /\ m_eventReceive # NullMethod

NonNullBind(b) == b.obj # NullObject /\ b.method # NullMethod

\* The last operation was an invoke that made exactly one call.
CalledOnce == op = "invoke" /\ Len(called) = 1

\* One call, of the method of bind b on the object of bind b itself, and a
\* call of inc adds exactly one to that object's counter and to no other.
CallsExactly(b) ==
  /\ Len(called') = 1
  /\ called'[1].fn = b.method.fn
  /\ called'[1].self = b.obj
  /\ called'[1].fn = "inc" =>
       counter' = [counter EXCEPT ![b.obj.id] = @ + 1]

\* C1 as claimed: after set(obj, method) with non-null obj and method, every
\* invoke calls exactly that method on exactly that object exactly once,
\* whatever the class of the object.
C1_AsClaimed ==
  [][(op' = "invoke" /\ NonNullBind(lastBind)) => CallsExactly(lastBind)]_vars

\* C1: after set(obj, method) with non-null obj and method, for an object
\* whose EventManager base sub-object lies at offset 0, every invoke calls
\* exactly that method on exactly that object exactly once before it
\* returns, so n invokes of a counter-incrementing method add n.
C1_InvokeCallsBoundMethod ==
  [][(op' = "invoke" /\ NonNullBind(lastBind)
        /\ EventManagerOffset(lastBind.obj.id) = 0)
      => CallsExactly(lastBind)]_vars

C1_Witness ==
  /\ variant = "Void"
  /\ CalledOnce
  /\ lastBind = [obj |-> AddressOf("a"), method |-> MemberPointer("inc")]
  /\ called[1].fn = "inc" /\ called[1].self = AddressOf("a")
  /\ counter["a"] = 3

\* C2: invoke on a slot whose target or handler is null calls no handler,
\* changes no slot field, no object and no caller argument, and does not fail.
C2_UnboundInvokeIsNoOp ==
  [][(op' = "invoke" /\ ~Bound)
      => /\ called' = <<>>
         /\ UNCHANGED <<m_object, m_eventReceive, counter, recorded, recordedPtr,
                        callerVar, stray>>]_vars

C2_Witness ==
  /\ op = "invoke"
  /\ m_object # NullObject
  /\ m_eventReceive = NullMethod
  /\ called = <<>>

\* C3: every call an invoke makes is of the method given to the most recent
\* set on the object given to the most recent set, never of an earlier pair,
\* and an invoke makes no call when the most recent set passed a null.
C3_DispatchesToLatestBind ==
  [][op' = "invoke"
      => /\ \A i \in 1..Len(called') :
              /\ called'[i].fn = lastBind.method.fn
              /\ called'[i].self.id = lastBind.obj.id
         /\ ~NonNullBind(lastBind) => called' = <<>>]_vars

C3_Witness ==
  /\ CalledOnce
  /\ called[1].fn = "bump" /\ called[1].self.id = "b"
  /\ recorded["a"] = 5
  /\ recorded["b"] = 6

\* C4 as claimed: target and handler are both null or both non-null in
\* every reachable state.
C4_AsClaimed == (m_object = NullObject) <=> (m_eventReceive = NullMethod)

\* C4: the target is null exactly when the most recent set passed a null
\* object (or no set was made) and the handler is null exactly when it passed
\* a null method; so the fields are both null or both non-null exactly while
\* the most recent set passed two nulls or two non-nulls.
C4_FieldsFollowLatestSet ==
  /\ (m_object = NullObject) <=> (lastBind.obj = NullObject)
  /\ (m_eventReceive = NullMethod) <=> (lastBind.method = NullMethod)

C4_Witness ==
  /\ op = "set"
  /\ m_object = NullObject
  /\ m_eventReceive # NullMethod

\* C5 as claimed: once target and handler are both set, no operation makes
\* invoke a no-op again.
C5_AsClaimed == [][Bound => Bound']_vars

\* C5: a bound slot stops being bound only by a set that passes a null
\* object or a null method; invoke and a set with two non-null arguments
\* keep it bound.
C5_UnboundOnlyBySetOfNull ==
  [][(Bound /\ ~Bound')
      => /\ op' = "set"
         /\ ~NonNullBind(lastBind')]_vars

C5_Witness ==
  /\ variant = "Void"
  /\ counter["a"] = 2
  /\ op = "set"
  /\ ~Bound

\* C6: an invoke whose handler does not bind the slot again leaves target
\* and handler as they were, in the empty, the half-set and the bound state.
C6_InvokeKeepsBinding ==
  [][(op' = "invoke" /\ ~(Bound /\ m_eventReceive.fn = "rebind"))
      => UNCHANGED <<m_object, m_eventReceive>>]_vars

C6_Witness ==
  /\ CalledOnce
  /\ called[1].fn = "inc"
  /\ counter["b"] = 2
  /\ Bound

\* C7: invoke of the reference variant on a bound slot leaves in the
\* caller's variable what the handler wrote to its parameter (twice the old
\* value for the doubling handler); on a slot that is not bound the variable
\* is unchanged.
C7_ReferenceIsCallersStorage ==
  [][(op' = "invoke" /\ variant = "RefArg")
      => IF Bound
         THEN /\ Len(called') = 1
              /\ called'[1].value = callerVar
              /\ called'[1].fn = "dbl" => callerVar' = 2 * callerVar
              /\ called'[1].fn = "storeRef" => callerVar' = callerVar
         ELSE callerVar' = callerVar]_vars

C7_Witness ==
  /\ variant = "RefArg"
  /\ CalledOnce
  /\ called[1].fn = "dbl"
  /\ called[1].value = 5
  /\ callerVar = 10

\* C8: invoke of the value variant hands the handler the value the caller
\* passed, the caller's variable is the same after the call also when the
\* handler changed its parameter, the handler keeps its own copy, and a
\* later assignment to the caller's variable changes nothing a handler kept.
C8_ValueIsCopied ==
  [][/\ (op' = "invoke" /\ variant = "Arg")
          => /\ callerVar' = callerVar
             /\ Bound => /\ Len(called') = 1
                         /\ called'[1].value = callerVar
                         /\ (called'[1].self.off = 0 /\ called'[1].fn = "store")
                              => recorded'[called'[1].self.id] = callerVar
                         /\ (called'[1].self.off = 0 /\ called'[1].fn = "bump")
                              => recorded'[called'[1].self.id] = callerVar + 1
     /\ op' = "assign" => recorded' = recorded]_vars

C8_Witness ==
  /\ variant = "Arg"
  /\ CalledOnce
  /\ called[1].fn = "bump"
  /\ called[1].value = 5
  /\ callerVar = 5
  /\ recorded["a"] = 6

\* C9: invoke of the pointer variant on a bound slot makes one call and
\* gives the handler the very pointer the caller passed, null included; the
\* slot itself does not use the pointer.
C9_PointerPassedUnchanged ==
  [][(op' = "invoke" /\ variant = "PtrArg" /\ Bound)
      => /\ Len(called') = 1
         /\ called'[1].ptr = argPassed'.ptr
         /\ called'[1].fn = "storePtr" => callerVar' = callerVar
         /\ (called'[1].fn = "storePtr" /\ called'[1].self.off = 0)
              => /\ recordedPtr'[called'[1].self.id] = argPassed'.ptr
                 /\ stray' = stray]_vars

C9_Witness ==
  /\ variant = "PtrArg"
  /\ CalledOnce
  /\ argPassed.ptr = "nullptr"
  /\ called[1].ptr = "nullptr"
  /\ called[1].fn = "storePtr"
  /\ recordedPtr["a"] = "nullptr"

\* Call c used the target and the handler of bind b.
PairOf(c, b) == c.fn = b.method.fn /\ c.self.id = b.obj.id

\* Call c used a target and a handler written by one and the same set call.
FromOneBind(c) ==
  /\ c.objSrc = c.mtdSrc
  /\ c.fn = c.objSrc.method.fn
  /\ c.self.id = c.objSrc.obj.id

\* C10 as claimed: every call an invoke makes uses a target and a handler
\* passed together to one set call (one of the set calls whose stores the
\* invoke read), also when the two stores of a set interleave with the
\* loads of an invoke.
C10_AsClaimed ==
  \A i \in 1..Len(called) :
    PairOf(called[i], called[i].objSrc) \/ PairOf(called[i], called[i].mtdSrc)

\* C10: as long as no set and no invoke on the slot have overlapped in
\* time, every call an invoke makes uses a target and a handler passed
\* together to one set call.
C10_PairFromOneBindWhenNotConcurrent ==
  ~raced => \A i \in 1..Len(called) : FromOneBind(called[i])

C10_Witness ==
  /\ Len(called) = 1
  /\ ~raced
  /\ called[1].fn = "inc"
  /\ called[1].self.id = "b"
  /\ pcSet = "idle"
  /\ counter["a"] = 1
  /\ counter["b"] = 1

====
